---- MODULE Spec2Model ----
(***************************************************************************)
(* Model of bc-zfsonlinux-memorymanagement2.py: the ZFS ARC limit          *)
(* controller (auto_limits, limit_init, adjust, run) and the lock-file     *)
(* protocol of its __main__ block.                                         *)
(*                                                                         *)
(* Units.  GB quantities (cfg.min_gb, limit_gb, ...) are Python floats; the *)
(* model holds them as integers in thousandths of a GB (mGB), so that      *)
(* round(x, 2) is a real rounding to a multiple of 10.  Percentages are    *)
(* held in hundredths of a percent.  Memory sizes of free(1) are MiB.      *)
(* A byte quantity of a tunable file is the record [g, r] standing for     *)
(* g * 2^30 + r bytes (|r| < 2^30, g and r of the same sign): exact byte   *)
(* values that stay inside TLC's 32-bit integers.                          *)
(*                                                                         *)
(* Spec follows one controller process from parse_args through the loop of *)
(* run(), call by call, with the failures and interrupts of every call.    *)
(* LockSpec follows NumProcs processes through the lock file of __main__.  *)
(* FreeSpec follows the measurement (free -m and its parsing) on a host     *)
(* with either version of free(1).  FairSpec is Spec for a process that    *)
(* keeps running.                                                          *)
(***************************************************************************)
EXTENDS Integers, Sequences, FiniteSets, TLC

\* ------------------------------------------------------------------------
\* Bounds of the model
\* ------------------------------------------------------------------------
NumPools == 2
NumProcs == 3
MaxFailures == 1

\* ------------------------------------------------------------------------
\* Program constants
\* ------------------------------------------------------------------------
GiB == 1073741824
Scale == 1000
default_min_percent == 8000
default_max_percent == 9400
default_min_good_percent == 8900
default_max_good_percent == 9300
default_max_panic_percent == 9700
meta_offset_gb == 2

Abs(x) == IF x < 0 THEN 0 - x ELSE x

\* round-half-even of n / d, for n >= 0 and d > 0 (Python 3 round())
RoundDiv(n, d) ==
    LET q == n \div d
        r == n % d
    IN  IF 2 * r < d THEN q
        ELSE IF 2 * r > d THEN q + 1
        ELSE IF q % 2 = 0 THEN q ELSE q + 1

\* round(x, 2) of a GB value x = n / d mGB: the nearest multiple of 10 mGB
Round2(n, d) == 10 * RoundDiv(n, 10 * d)

\* percent = round(100*used/total, 2), in hundredths of a percent
Percent(used, total) == RoundDiv(10000 * used, total)

\* int(gb * 1024*1024*1024) for gb = m mGB: truncation toward zero
\* 2^30 = 1000 * 1073741 + 824
BytesPos(m) ==
    [g |-> m \div Scale,
     r |-> (m % Scale) * (GiB \div Scale) + ((m % Scale) * (GiB % Scale)) \div Scale]

ToBytes(m) ==
    IF m >= 0 THEN BytesPos(m)
    ELSE [g |-> 0 - BytesPos(0 - m).g, r |-> 0 - BytesPos(0 - m).r]

\* sign of 100 * r - (2k+1) * 2^29, i.e. of r * 100 / 2^30 - (k + 1/2)
\* 2^29 = 100 * 5368709 + 12
HalfCmp(r, k) ==
    LET d == r - (2 * k + 1) * (GiB \div 200)
    IN  IF d < 0 THEN 0 - 1
        ELSE IF d > 30 THEN 1
        ELSE IF 100 * d < (2 * k + 1) * ((GiB \div 2) % 100) THEN 0 - 1
        ELSE IF 100 * d > (2 * k + 1) * ((GiB \div 2) % 100) THEN 1
        ELSE 0

\* round(b / 1024/1024/1024, 2) for a byte value b >= 0, in mGB
FromBytes(b) ==
    LET k == CHOOSE k \in 0..100 :
                /\ \/ HalfCmp(b.r, k) < 0
                   \/ HalfCmp(b.r, k) = 0 /\ k % 2 = 0
                /\ \/ k = 0
                   \/ HalfCmp(b.r, k - 1) > 0
                   \/ HalfCmp(b.r, k - 1) = 0 /\ k % 2 = 0
    IN  10 * (100 * b.g + k)


\* ------------------------------------------------------------------------
\* Inputs: command lines (cfg after parse_args), persisted tunable values,
\* measurements
\* ------------------------------------------------------------------------
Pools == 1..NumPools
Procs == 1..NumProcs

Defaults ==
    [min_percent |-> default_min_percent, max_percent |-> default_max_percent,
     min_good_percent |-> default_min_good_percent,
     max_good_percent |-> default_max_good_percent,
     max_panic_percent |-> default_max_panic_percent,
     min_gb |-> 0, max_gb |-> 0, min_good_gb |-> 0, max_good_gb |-> 0]

\* cfg = parser.parse_args(): 0 stands for an option that was not given (None).
\* The command lines: the defaults; all four limits given, in order; other
\* thresholds with limits given out of order (--min-good-gb above --max-good-gb
\* and above --max-gb).
CommandLines ==
    { Defaults,
      [Defaults EXCEPT !.min_gb = 10000, !.max_gb = 20000,
                       !.min_good_gb = 10000, !.max_good_gb = 20000],
      [Defaults EXCEPT !.min_percent = 7000, !.min_good_percent = 7500,
                       !.max_good_percent = 8500, !.max_percent = 9000,
                       !.max_panic_percent = 9500,
                       !.min_gb = 10000, !.max_gb = 11000,
                       !.min_good_gb = 12000, !.max_good_gb = 10000] }

\* total memory of the host as free -m reports it (MiB)
RamTotals == {8000}

\* contents of zfs_arc_max when the program starts (bytes)
PersistedLimits ==
    { [g |-> 0, r |-> 0],              \* 0: the module default
      [g |-> 4, r |-> 1000000],        \* 4295967296 bytes
      [g |-> 64, r |-> 0] }            \* 64 GiB

\* used memory values (MiB) around every threshold of the configuration
PercentPoints(c) ==
    { 0, c.min_percent, c.min_good_percent,
      (c.min_good_percent + c.max_good_percent) \div 2,
      c.max_good_percent, c.max_percent, c.max_panic_percent, 10000 }

Useds(c, total) ==
    { (total * q) \div 10000 : q \in PercentPoints(c) }
        \cup { (total * (c.min_good_percent + 100)) \div 10000 + 3 }

\* ------------------------------------------------------------------------
\* State
\* ------------------------------------------------------------------------
VARIABLES
    \* the controller process
    cfg,                \* global cfg
    ram_total,          \* total memory of the host
    zfs_arc_max,        \* content of /sys/module/zfs/parameters/zfs_arc_max
    zfs_arc_meta_limit, \* content of .../zfs_arc_meta_limit
    pool_cache,         \* primarycache property of every pool
    limit_gb,           \* run(): limit_gb
    primarycache,       \* run(): primarycache ("None" when unset)
    cpc,                \* position of the controller process
    \* observations of the last step of the controller
    percent,            \* the percentage of the last measurement
    lastRule,           \* the branch of run() the last iteration took
    lastEv,             \* how the last step ended
    lastPanic,          \* mode of the previous iteration if it was a panic
    ops,                \* the calls of the last step, in order
    exitCause,          \* why the process ended
    failures,           \* number of exceptions the loop has caught
    \* the lock-file protocol of __main__, one entry per process
    pc, fd, got_lock, lockFile, flock, inodes, wrote,
    heldAtFlock, interrupted, removed,
    \* the memory measurement
    procps,             \* the version of free(1) the host has installed
    free_version,       \* global free_version ("None": never assigned)
    free_out,           \* the output of the last run of free -m
    meas_total,         \* what get_ram_total() returned
    meas_used,          \* what get_ram_used() returned
    meas_percent,       \* round(100*used/total, 2)
    fpc                 \* position within the measurement

cvars == <<cfg, ram_total, zfs_arc_max, zfs_arc_meta_limit, pool_cache, limit_gb,
           primarycache, cpc, percent, lastRule, lastEv, lastPanic,
           ops, exitCause, failures>>
lvars == <<pc, fd, got_lock, lockFile, flock, inodes, wrote,
           heldAtFlock, interrupted, removed>>
vars == <<cfg, ram_total, zfs_arc_max, zfs_arc_meta_limit, pool_cache, limit_gb,
          primarycache, cpc, percent, lastRule, lastEv, lastPanic,
          ops, exitCause, failures,
          pc, fd, got_lock, lockFile, flock, inodes, wrote,
          heldAtFlock, interrupted, removed,
          procps, free_version, free_out, meas_total, meas_used, meas_percent, fpc>>
fvars == <<procps, free_version, free_out, meas_total, meas_used, meas_percent, fpc>>

\* ------------------------------------------------------------------------
\* Exceptions
\* ------------------------------------------------------------------------
\* the except clauses of run()'s loop: "raise" lets the exception leave the
\* loop, "cooldown" logs it and sleeps 30 s.  An exception raised inside the
\* handler (during its sleep) is not covered by the sibling clauses.
\* variants of the except clauses: "except: raise", and the catch-all clause
\* placed before the KeyboardInterrupt clause
OnExceptionReraise(exc, inHandler) == "raise"
OnExceptionCatchAll(exc, inHandler) == IF inHandler THEN "raise" ELSE "cooldown"

OnException(exc, inHandler) ==
    IF inHandler THEN "raise"
    ELSE IF exc = "KeyboardInterrupt" THEN "raise"
    ELSE "cooldown"

\* ------------------------------------------------------------------------
\* auto_limits
\* ------------------------------------------------------------------------
\* int(total/1024 * (pct / 100) / div), in mGB
DerivedGb(total, pct, div) == Scale * ((total * pct) \div (1024 * 10000 * div))

auto_limits(c, total) ==
    [c EXCEPT
       !.min_gb = IF c.min_gb = 0 THEN DerivedGb(total, c.min_percent, 4) ELSE @,
       !.max_gb = IF c.max_gb = 0 THEN DerivedGb(total, c.max_percent, 1) ELSE @,
       !.min_good_gb = IF c.min_good_gb = 0
                       THEN DerivedGb(total, c.min_good_percent, 1) ELSE @,
       !.max_good_gb = IF c.max_good_gb = 0
                       THEN DerivedGb(total, c.max_good_percent, 1) ELSE @]

\* ------------------------------------------------------------------------
\* Steps of a call sequence.  A step is one call or assignment of the code;
\* Apply gives its effect on the state record.
\* ------------------------------------------------------------------------
Step(op, pool, mode, lim) == [op |-> op, pool |-> pool, mode |-> mode, lim |-> lim]
Call(op) == Step(op, 0, "-", 0)

\* the steps that can raise an exception (subprocess failure, I/O error)
Failable == {"get_ram_total", "get_ram_used", "drop_caches", "get_pools", "zfs_set",
             "restart_crashplan", "write_meta", "write_max", "read_max"}
\* the steps during which a KeyboardInterrupt can arrive
Blocking == Failable \cup {"sleep_action", "sleep_idle"}

Apply(s, st) ==
    CASE st.op = "assign_primarycache" -> [s EXCEPT !.primarycache = st.mode]
      [] st.op = "assign_limit_gb" -> [s EXCEPT !.limit_gb = st.lim]
      [] st.op = "zfs_set" -> [s EXCEPT !.pool_cache[st.pool] = st.mode]
      [] st.op = "write_meta" ->
            [s EXCEPT !.zfs_arc_meta_limit = ToBytes(st.lim - meta_offset_gb * Scale)]
      [] st.op = "write_max" -> [s EXCEPT !.zfs_arc_max = ToBytes(st.lim)]
      [] OTHER -> s

RECURSIVE Exec(_, _, _)
Exec(s, plan, n) == IF n = 0 THEN s ELSE Apply(Exec(s, plan, n - 1), plan[n])

OpNames(plan, n) == [i \in 1..n |-> plan[i].op]

\* adjust(percent, limit_gb, message): meta limit first, then the max
adjust(lim) == << Step("write_meta", 0, "-", lim), Step("write_max", 0, "-", lim) >>

\* set_primarycache(value): one zfs set per pool of active_pools()
set_primarycache(value) ==
    << Call("get_pools") >> \o [i \in 1..NumPools |-> Step("zfs_set", i, value, 0)]

assign_limit_gb(lim) == << Step("assign_limit_gb", 0, "-", lim) >>


\* ------------------------------------------------------------------------
\* run(): the branch of the if/elif chain and its calls
\* ------------------------------------------------------------------------
\* variant of the chain: the good band is tested before max_percent
RuleOfGoodFirst(p, c) ==
    IF p > c.max_panic_percent THEN "panic"
    ELSE IF p > c.max_good_percent THEN "above_good"
    ELSE IF p > c.max_percent THEN "above_max"
    ELSE IF p < c.min_percent THEN "below_min"
    ELSE IF p < c.min_good_percent THEN "below_good"
    ELSE "steady"

RuleOf(p, c) ==
    IF p > c.max_panic_percent THEN "panic"
    ELSE IF p > c.max_percent THEN "above_max"
    ELSE IF p < c.min_percent THEN "below_min"
    ELSE IF p > c.max_good_percent THEN "above_good"
    ELSE IF p < c.min_good_percent THEN "below_good"
    ELSE "steady"

\* variant of the toggle: always the same mode
ToggleStuck(mode) == "metadata"

\* the panic branch's new primarycache
Toggle(mode) == IF mode = "metadata" THEN "none" ELSE "metadata"

\* round(min_good_gb + (1 - relative_goodness) * (max_good_gb - min_good_gb), 2)
\* with relative_goodness = (p - min_good_percent) / (max_good_percent - min_good_percent)
Interpolate(p, c) ==
    LET den == c.max_good_percent - c.min_good_percent
    IN  Round2(c.min_good_gb * den + (c.max_good_percent - p) * (c.max_good_gb - c.min_good_gb),
               den)

\* variant of the decrement: the clamp to min_gb is left out
DecrementUnclamped(lim, c) == lim - Scale

Decrement(lim, c) == IF lim - Scale < c.min_gb THEN c.min_gb ELSE lim - Scale
Increment(lim, c) == IF lim + Scale > c.max_gb THEN c.max_gb ELSE lim + Scale

\* variant of the panic branch: the pools are set before the cache is dropped
PanicBranchPoolsFirst(s) ==
    << Step("assign_primarycache", 0, Toggle(s.primarycache), 0) >>
        \o set_primarycache(Toggle(s.primarycache))
        \o << Call("drop_caches"), Call("restart_crashplan") >>

PanicBranch(s) ==
    << Step("assign_primarycache", 0, Toggle(s.primarycache), 0), Call("drop_caches") >>
        \o set_primarycache(Toggle(s.primarycache))
        \o << Call("restart_crashplan") >>

AboveMaxBranch(s, c) ==
    IF s.limit_gb > c.min_gb
    THEN assign_limit_gb(Decrement(s.limit_gb, c)) \o adjust(Decrement(s.limit_gb, c))
    ELSE << Call("sleep_idle") >>

\* variant of the below-min branch: primarycache=all is set only when the
\* limit is raised
BelowMinBranchCoupled(s, c) ==
    IF s.limit_gb < c.max_gb
    THEN (IF s.primarycache # "all"
          THEN set_primarycache("all") \o << Step("assign_primarycache", 0, "all", 0) >>
          ELSE << >>)
         \o assign_limit_gb(Increment(s.limit_gb, c)) \o adjust(Increment(s.limit_gb, c))
    ELSE << Call("sleep_idle") >>

\* variant of the below-min branch: primarycache is recorded before the pools
\* are set
BelowMinBranchRecordFirst(s, c) ==
    (IF s.primarycache # "all"
     THEN << Step("assign_primarycache", 0, "all", 0) >> \o set_primarycache("all")
     ELSE << >>)
    \o (IF s.limit_gb < c.max_gb
        THEN assign_limit_gb(Increment(s.limit_gb, c)) \o adjust(Increment(s.limit_gb, c))
        ELSE << Call("sleep_idle") >>)

BelowMinBranch(s, c) ==
    (IF s.primarycache # "all"
     THEN set_primarycache("all") \o << Step("assign_primarycache", 0, "all", 0) >>
     ELSE << >>)
    \o (IF s.limit_gb < c.max_gb
        THEN assign_limit_gb(Increment(s.limit_gb, c)) \o adjust(Increment(s.limit_gb, c))
        ELSE << Call("sleep_idle") >>)

SnapBranch(lim) == assign_limit_gb(lim) \o adjust(lim) \o << Call("sleep_idle") >>

\* variant of the chain's bodies: the two snaps take each other's target
BranchSnapsSwapped(rule, s, p, c) ==
    CASE rule = "panic" -> PanicBranch(s)
      [] rule = "above_max" -> AboveMaxBranch(s, c)
      [] rule = "below_min" -> BelowMinBranch(s, c)
      [] rule = "above_good" -> SnapBranch(c.max_good_gb)
      [] rule = "below_good" -> SnapBranch(c.min_good_gb)
      [] rule = "steady" -> SnapBranch(Interpolate(p, c))

Branch(rule, s, p, c) ==
    CASE rule = "panic" -> PanicBranch(s)
      [] rule = "above_max" -> AboveMaxBranch(s, c)
      [] rule = "below_min" -> BelowMinBranch(s, c)
      [] rule = "above_good" -> SnapBranch(c.min_good_gb)
      [] rule = "below_good" -> SnapBranch(c.max_good_gb)
      [] rule = "steady" -> SnapBranch(Interpolate(p, c))

\* the part of an iteration before the branch
Measure == << Call("sleep_action"), Call("get_ram_total"), Call("get_ram_used") >>

LoopBody(s, p, c) == Measure \o Branch(RuleOf(p, c), s, p, c)

\* the state record the steps act on
Now == [limit_gb |-> limit_gb, primarycache |-> primarycache, pool_cache |-> pool_cache,
        zfs_arc_max |-> zfs_arc_max, zfs_arc_meta_limit |-> zfs_arc_meta_limit]

\* n steps of plan complete; the run ends there with ev
Ends(plan, n, ev) ==
    \/ ev = "ok" /\ n = Len(plan)
    \/ ev = "fail" /\ n < Len(plan) /\ plan[n + 1].op \in Failable
    \/ ev = "kint" /\ n < Len(plan) /\ plan[n + 1].op \in Blocking

Exc(ev) == IF ev = "kint" THEN "KeyboardInterrupt" ELSE "Exception"

Store(s) ==
    /\ limit_gb' = s.limit_gb
    /\ primarycache' = s.primarycache
    /\ pool_cache' = s.pool_cache
    /\ zfs_arc_max' = s.zfs_arc_max
    /\ zfs_arc_meta_limit' = s.zfs_arc_meta_limit

\* ------------------------------------------------------------------------
\* The memory measurement: free -m and its parsing
\* ------------------------------------------------------------------------
\* A line of the output is its label tokens (their number) and its numbers;
\* Split(line, k) is line.split()[k] for a numeric field.
Line(labels, nums) == [labels |-> labels, nums |-> nums]
Split(line, k) == line.nums[k + 1 - line.labels]

LegacyHeader == << "total", "used", "free", "shared", "buffers", "cached" >>
NewHeader == << "total", "used", "free", "shared", "buff/cache", "available" >>

\* free -m of procps 3.3.9:
\*              total  used  free  shared  buffers  cached
\* Mem:          ...
\* -/+ buffers/cache:  used-buffers-cached  free+buffers+cached
\* Swap:         ...
LegacyOutput(total, used, buffers, cached) ==
    [header |-> LegacyHeader,
     lines |-> << Line(1, << total, used, total - used, 0, buffers, cached >>),
                  Line(2, << used - buffers - cached, total - used + buffers + cached >>),
                  Line(1, << 2047, 0, 2047 >>) >>]

\* free -m of procps 3.3.10:
\*              total  used  free  shared  buff/cache  available
\* Mem:          ...
\* Swap:         ...
NewOutput(total, used, buffcache, available) ==
    [header |-> NewHeader,
     lines |-> << Line(1, << total, used, total - used - buffcache, 0, buffcache, available >>),
                  Line(1, << 2047, 0, 2047 >>) >>]

\* get_ram(): the lines free -m can print on a host with the given procps
get_ram(version) ==
    IF version = "3.3.9"
    THEN { LegacyOutput(t, u, b, c) :
             t \in RamTotals, u \in {4000, 5800, 7000, 7600}, b \in {100, 400},
             c \in {1000, 1800, 2500} }
    ELSE { NewOutput(t, u, bc, t - u - 50) :
             t \in RamTotals, u \in {4000, 5800, 7000, 7600}, bc \in {100, 200, 300} }

NoOutput == [header |-> << >>, lines |-> << >>]

\* detect_free_version(): the value its assignment gives to free_version, a
\* local of the function (there is no global statement); nothing calls it
detect_free_version(ram) ==
    IF \E i \in 1..Len(ram.header) : ram.header[i] = "available" THEN "3.3.10" ELSE "3.3.9"

\* get_ram_total(): field 1 of ram[1] in both branches
get_ram_total(ram, version) ==
    IF version = "3.3.9" THEN Split(ram.lines[1], 1) ELSE Split(ram.lines[1], 1)

\* get_ram_used(): field 2 of ram[2], or split[0] - split[5] of ram[1]
get_ram_used(ram, version) ==
    IF version = "3.3.9" THEN Split(ram.lines[2], 2)
    ELSE ram.lines[1].nums[1] - ram.lines[1].nums[6]

FreeIdle ==
    /\ procps = "3.3.10"
    /\ free_version = "None"
    /\ free_out = NoOutput
    /\ meas_total = 0 - 1
    /\ meas_used = 0 - 1
    /\ meas_percent = 0 - 1
    /\ fpc = "idle"

\* one measurement as limit_init() and the loop of run() make it:
\* total = get_ram_total(); used = get_ram_used(); percent = round(...).
\* Each of the two calls runs free -m.
CallGetRamTotal ==
    /\ fpc = "idle"
    /\ \E ram \in get_ram(procps) :
         /\ free_out' = ram
         /\ meas_total' = get_ram_total(ram, free_version)
    /\ fpc' = "total"
    /\ UNCHANGED <<procps, free_version, meas_used, meas_percent>>
    /\ UNCHANGED cvars
    /\ UNCHANGED lvars

CallGetRamUsed ==
    /\ fpc = "total"
    /\ \E ram \in get_ram(procps) :
         /\ free_out' = ram
         /\ meas_used' = get_ram_used(ram, free_version)
    /\ fpc' = "used"
    /\ UNCHANGED <<procps, free_version, meas_total, meas_percent>>
    /\ UNCHANGED cvars
    /\ UNCHANGED lvars

ComputePercent ==
    /\ fpc = "used"
    /\ meas_percent' = Percent(meas_used, meas_total)
    /\ fpc' = "idle"
    /\ UNCHANGED <<procps, free_version, free_out, meas_total, meas_used>>
    /\ UNCHANGED cvars
    /\ UNCHANGED lvars

\* ------------------------------------------------------------------------
\* The controller process
\* ------------------------------------------------------------------------
LockInitial ==
    /\ pc = [p \in Procs |-> "start"]
    /\ fd = [p \in Procs |-> 0]
    /\ got_lock = [p \in Procs |-> FALSE]
    /\ lockFile = 0
    /\ flock = [i \in 1..NumProcs |-> 0]
    /\ inodes = 0
    /\ wrote = [p \in Procs |-> FALSE]
    /\ heldAtFlock = [p \in Procs |-> FALSE]
    /\ interrupted = [p \in Procs |-> FALSE]
    /\ removed = [p \in Procs |-> FALSE]

Init ==
    /\ cfg \in CommandLines
    /\ ram_total \in RamTotals
    /\ zfs_arc_max \in PersistedLimits
    /\ zfs_arc_meta_limit = [g |-> 0, r |-> 0]
    /\ pool_cache = [i \in Pools |-> "all"]
    /\ limit_gb = 0
    /\ primarycache = "None"
    /\ cpc = "main"
    /\ percent = 0 - 1
    /\ lastRule = "none"
    /\ lastEv = "-"
    /\ lastPanic = "-"
    /\ ops = << >>
    /\ exitCause = "-"
    /\ failures = 0
    /\ LockInitial
    /\ FreeIdle

\* the process ends: its memory is gone, the files and the pools stay
Ended(ev) ==
    /\ cpc' = "exited"
    /\ exitCause' = (IF ev = "kint" THEN "kint" ELSE "error")
    /\ limit_gb' = 0
    /\ primarycache' = "None"
    /\ percent' = 0 - 1
    /\ lastRule' = "none"
    /\ lastPanic' = "-"
    /\ ops' = << >>
    /\ lastEv' = ev

Disk(s) ==
    /\ pool_cache' = s.pool_cache
    /\ zfs_arc_max' = s.zfs_arc_max
    /\ zfs_arc_meta_limit' = s.zfs_arc_meta_limit

\* __main__: parse_args, logging_init, auto_limits, the lock (taken without
\* contention here), then run() is entered
Startup ==
    /\ cpc = "main"
    /\ \E ev \in {"ok", "fail", "kint"} :
         IF ev = "ok"
         THEN /\ cfg' = auto_limits(cfg, ram_total)
              /\ cpc' = "run"
              /\ lastEv' = ev
              /\ ops' = << "get_ram_total" >>
              /\ UNCHANGED <<limit_gb, primarycache, percent, lastRule, lastPanic,
                             exitCause>>
         ELSE cfg' = cfg /\ Ended(ev)
    /\ UNCHANGED <<ram_total, zfs_arc_max, zfs_arc_meta_limit, pool_cache, failures>>
    /\ UNCHANGED lvars
    /\ UNCHANGED fvars

\* limit_init(): the clamped start value
Clamp(lim, c) ==
    IF lim < c.min_gb THEN c.min_gb
    ELSE IF lim > c.max_gb THEN c.max_gb
    ELSE lim

limit_init(b, c) ==
    << Call("read_max") >> \o assign_limit_gb(Clamp(FromBytes(b), c))
        \o << Call("get_ram_total"), Call("get_ram_used") >>
        \o adjust(Clamp(FromBytes(b), c))

\* run(): limit_gb = limit_init().  An exception here is outside the loop's
\* try and ends the process.
LimitInit ==
    /\ cpc = "run"
    /\ LET plan == limit_init(zfs_arc_max, cfg)
       IN  \E n \in 0..Len(plan), ev \in {"ok", "fail", "kint"} :
             /\ Ends(plan, n, ev)
             /\ IF ev = "ok"
                THEN /\ Store(Exec(Now, plan, n))
                     /\ ops' = OpNames(plan, n)
                     /\ lastEv' = ev
                     /\ lastRule' = "init"
                     /\ cpc' = "loop"
                     /\ UNCHANGED <<percent, lastPanic, exitCause>>
                ELSE Disk(Exec(Now, plan, n)) /\ Ended(ev)
    /\ UNCHANGED <<cfg, ram_total, failures>>
    /\ UNCHANGED lvars
    /\ UNCHANGED fvars

\* how a pass of the loop that completed n steps of plan ends
Pass(plan, n, ev, p) ==
    /\ Ends(plan, n, ev)
    /\ ev = "fail" => failures < MaxFailures
    /\ IF ev # "ok" /\ OnException(Exc(ev), FALSE) = "raise"
       THEN Disk(Exec(Now, plan, n)) /\ Ended(ev) /\ failures' = failures
       ELSE /\ Store(Exec(Now, plan, n))
            /\ ops' = OpNames(plan, n)
            /\ lastEv' = ev
            /\ percent' = (IF n >= Len(Measure) THEN p ELSE 0 - 1)
            /\ lastRule' = (IF n >= Len(Measure) THEN RuleOf(p, cfg) ELSE "none")
            /\ lastPanic' = (IF n < Len(Measure) THEN lastPanic
                             ELSE IF RuleOf(p, cfg) = "panic" THEN Toggle(primarycache)
                             ELSE "-")
            /\ cpc' = (IF ev = "ok" THEN "loop" ELSE "cooldown")
            /\ failures' = (IF ev = "fail" THEN failures + 1 ELSE failures)
            /\ exitCause' = exitCause

\* one pass of the while loop of run(), up to the end of the try body or to
\* the exception that leaves it: the exception comes before the measurement
\* is complete, or the measurement gives used MiB and the branch runs
Iterate ==
    /\ cpc = "loop"
    /\ \/ \E n \in 0..(Len(Measure) - 1), ev \in {"fail", "kint"} :
            Pass(Measure, n, ev, 0 - 1)
       \/ \E used \in Useds(cfg, ram_total) :
            LET p == Percent(used, ram_total)
                plan == LoopBody(Now, p, cfg)
            IN  \E n \in Len(Measure)..Len(plan), ev \in {"ok", "fail", "kint"} :
                  Pass(plan, n, ev, p)
    /\ UNCHANGED <<cfg, ram_total>>
    /\ UNCHANGED lvars
    /\ UNCHANGED fvars

\* the catch-all handler: log, time.sleep(30), back to the top of the loop
Cooldown ==
    /\ cpc = "cooldown"
    /\ \E ev \in {"ok", "kint"} :
         IF ev # "ok" /\ OnException(Exc(ev), TRUE) = "raise"
         THEN Ended(ev)
         ELSE /\ cpc' = "loop"
              /\ lastEv' = "resumed"
              /\ UNCHANGED <<limit_gb, primarycache, percent, lastRule, lastPanic, ops,
                             exitCause>>
    /\ UNCHANGED <<cfg, ram_total, zfs_arc_max, zfs_arc_meta_limit, pool_cache, failures>>
    /\ UNCHANGED lvars
    /\ UNCHANGED fvars

Next == Startup \/ LimitInit \/ Iterate \/ Cooldown

Spec == Init /\ [][Next]_vars

\* the process keeps running: while True with finite sleeps, so a step that can
\* be taken is eventually taken
FairSpec == Init /\ [][Next]_vars /\ WF_vars(Next)


\* ------------------------------------------------------------------------
\* __main__: the lock file, for NumProcs processes started on one host.
\* run() is followed here only through its positions (which call blocks, which
\* exception leaves it) and through whether it has written a tunable.
\* ------------------------------------------------------------------------
LoopPositions == {"sleep", "measure", "act", "idle", "cooldown"}
RunPositions == {"limit_init"} \cup LoopPositions

Holds(p) == fd[p] # 0 /\ flock[fd[p]] = p

ControllerIdle ==
    /\ cfg = Defaults
    /\ ram_total \in RamTotals
    /\ zfs_arc_max = [g |-> 0, r |-> 0]
    /\ zfs_arc_meta_limit = [g |-> 0, r |-> 0]
    /\ pool_cache = [i \in Pools |-> "all"]
    /\ limit_gb = 0
    /\ primarycache = "None"
    /\ cpc = "main"
    /\ percent = 0 - 1
    /\ lastRule = "none"
    /\ lastEv = "-"
    /\ lastPanic = "-"
    /\ ops = << >>
    /\ exitCause = "-"
    /\ failures = 0

LockInit == ControllerIdle /\ LockInitial /\ FreeIdle

\* with open(lockFile, "wb") as f: the path is created when it does not exist
Open(p) ==
    /\ pc[p] = "start"
    /\ IF lockFile = 0
       THEN inodes' = inodes + 1 /\ lockFile' = inodes + 1
       ELSE UNCHANGED <<inodes, lockFile>>
    /\ fd' = [fd EXCEPT ![p] = lockFile']
    /\ pc' = [pc EXCEPT ![p] = "opened"]
    /\ UNCHANGED <<got_lock, flock, wrote, heldAtFlock, interrupted,
                   removed>>
    /\ UNCHANGED cvars
    /\ UNCHANGED fvars

\* fcntl.flock(f, LOCK_EX | LOCK_NB); got_lock = True, or the except: exit(1).
\* The lock belongs to the open file, i.e. to the inode f was opened on.
Flock(p) ==
    /\ pc[p] = "opened"
    /\ heldAtFlock' = [heldAtFlock EXCEPT ![p] = \E q \in Procs \ {p} : Holds(q)]
    /\ IF flock[fd[p]] = 0
       THEN /\ flock' = [flock EXCEPT ![fd[p]] = p]
            /\ got_lock' = [got_lock EXCEPT ![p] = TRUE]
            /\ pc' = [pc EXCEPT ![p] = "limit_init"]
       ELSE /\ pc' = [pc EXCEPT ![p] = "unwind"]
            /\ UNCHANGED <<flock, got_lock>>
    /\ UNCHANGED <<fd, lockFile, inodes, wrote, interrupted, removed>>
    /\ UNCHANGED cvars
    /\ UNCHANGED fvars

\* run(): limit_init() ends with adjust(); an exception there leaves run()
RunLimitInit(p) ==
    /\ pc[p] = "limit_init"
    /\ \/ /\ wrote' = [wrote EXCEPT ![p] = TRUE]
          /\ pc' = [pc EXCEPT ![p] = "sleep"]
       \/ /\ \E w \in BOOLEAN : wrote' = [wrote EXCEPT ![p] = w]
          /\ pc' = [pc EXCEPT ![p] = "unwind"]
    /\ UNCHANGED <<fd, got_lock, lockFile, flock, inodes, heldAtFlock,
                   interrupted, removed>>
    /\ UNCHANGED cvars
    /\ UNCHANGED fvars

\* the positions of one pass of the loop
LoopStep(p) ==
    /\ \/ /\ pc[p] = "sleep"
          /\ pc' = [pc EXCEPT ![p] = "measure"]
          /\ wrote' = wrote
       \/ /\ pc[p] = "measure"
          /\ pc' = [pc EXCEPT ![p] = "act"]
          /\ wrote' = wrote
       \/ /\ pc[p] = "act"
          /\ \E w \in BOOLEAN : wrote' = [wrote EXCEPT ![p] = wrote[p] \/ w]
          /\ \E next \in {"sleep", "idle"} : pc' = [pc EXCEPT ![p] = next]
       \/ /\ pc[p] \in {"idle", "cooldown"}
          /\ pc' = [pc EXCEPT ![p] = "sleep"]
          /\ wrote' = wrote
    /\ UNCHANGED <<fd, got_lock, lockFile, flock, inodes, heldAtFlock,
                   interrupted, removed>>
    /\ UNCHANGED cvars
    /\ UNCHANGED fvars

\* a call of the loop body raises an Exception
LoopFail(p) ==
    /\ pc[p] \in {"measure", "act"}
    /\ \E w \in BOOLEAN : wrote' = [wrote EXCEPT ![p] = wrote[p] \/ (w /\ pc[p] = "act")]
    /\ IF OnException("Exception", FALSE) = "cooldown"
       THEN pc' = [pc EXCEPT ![p] = "cooldown"]
       ELSE pc' = [pc EXCEPT ![p] = "unwind"]
    /\ UNCHANGED <<fd, got_lock, lockFile, flock, inodes, heldAtFlock, interrupted,
                   removed>>
    /\ UNCHANGED cvars
    /\ UNCHANGED fvars

\* KeyboardInterrupt while the process is in run()
Interrupt(p) ==
    /\ pc[p] \in RunPositions
    /\ interrupted' = [interrupted EXCEPT ![p] = TRUE]
    /\ IF pc[p] = "limit_init" \/ OnException("KeyboardInterrupt", pc[p] = "cooldown") = "raise"
       THEN pc' = [pc EXCEPT ![p] = "unwind"]
       ELSE pc' = [pc EXCEPT ![p] = "cooldown"]
    /\ UNCHANGED <<fd, got_lock, lockFile, flock, inodes, wrote, heldAtFlock,
                   removed>>
    /\ UNCHANGED cvars
    /\ UNCHANGED fvars

\* the with statement closes f when the exception passes it: the lock is gone
Close(p) ==
    /\ pc[p] = "unwind"
    /\ flock' = [i \in DOMAIN flock |-> IF flock[i] = p THEN 0 ELSE flock[i]]
    /\ fd' = [fd EXCEPT ![p] = 0]
    /\ pc' = [pc EXCEPT ![p] = "finally"]
    /\ UNCHANGED <<got_lock, lockFile, inodes, wrote, heldAtFlock,
                   interrupted, removed>>
    /\ UNCHANGED cvars
    /\ UNCHANGED fvars

\* finally: if got_lock: os.remove(lockFile) -- the path, whatever it names now
Finally(p) ==
    /\ pc[p] = "finally"
    /\ IF got_lock[p]
       THEN removed' = [removed EXCEPT ![p] = TRUE] /\ lockFile' = 0
       ELSE UNCHANGED <<removed, lockFile>>
    /\ pc' = [pc EXCEPT ![p] = "exited"]
    /\ UNCHANGED <<fd, got_lock, flock, inodes, wrote, heldAtFlock,
                   interrupted>>
    /\ UNCHANGED cvars
    /\ UNCHANGED fvars

LockNext ==
    \E p \in Procs :
        \/ Open(p)
        \/ Flock(p)
        \/ RunLimitInit(p)
        \/ LoopStep(p)
        \/ LoopFail(p)
        \/ Interrupt(p)
        \/ Close(p)
        \/ Finally(p)

LockSpec == LockInit /\ [][LockNext]_vars

\* the measurement alone, on a host with either version of free(1)
FreeInit ==
    /\ ControllerIdle
    /\ LockInitial
    /\ procps \in {"3.3.9", "3.3.10"}
    /\ free_version = "None"
    /\ free_out = NoOutput
    /\ meas_total = 0 - 1
    /\ meas_used = 0 - 1
    /\ meas_percent = 0 - 1
    /\ fpc = "idle"

FreeNext == CallGetRamTotal \/ CallGetRamUsed \/ ComputePercent

FreeSpec == FreeInit /\ [][FreeNext]_vars


\* ------------------------------------------------------------------------
\* Properties
\* ------------------------------------------------------------------------
IsPrefix(a, b) == Len(a) <= Len(b) /\ \A i \in 1..Len(a) : a[i] = b[i]
Count(seq, x) == Cardinality({i \in 1..Len(seq) : seq[i] = x})
BytesLess(a, b) == a.g < b.g \/ (a.g = b.g /\ a.r < b.r)
InLoop == cpc \in {"loop", "cooldown"}
Rules == {"panic", "above_max", "below_min", "above_good", "below_good", "steady"}

\* C1: once limit_init() has returned, and after every iteration of the loop,
\* cfg.min_gb <= limit_gb <= cfg.max_gb.
C1_LimitWithinBounds == InLoop => cfg.min_gb <= limit_gb /\ limit_gb <= cfg.max_gb

\* C2: at most one process is inside run() at any time.
C2_SingleInstance == Cardinality({p \in Procs : pc[p] \in RunPositions}) <= 1

\* C3: a process that tries the lock while another process holds it does not get
\* into run(): it takes no lock, writes no tunable and makes no iteration.
C3_SecondProcessExits ==
    \A p \in Procs :
        heldAtFlock[p] => ~got_lock[p] /\ ~wrote[p] /\ pc[p] \notin RunPositions

\* C4: the branch an iteration takes is the first, in the order panic, above max,
\* below min, above good band, below good band, steady state, whose condition
\* the measured percentage satisfies; some condition always holds, and the
\* steady-state condition holds together with no other.
RuleConditions(p, c) ==
    << p > c.max_panic_percent, p > c.max_percent, p < c.min_percent,
       p > c.max_good_percent, p < c.min_good_percent,
       c.min_good_percent <= p /\ p <= c.max_good_percent >>
RuleOrder == << "panic", "above_max", "below_min", "above_good", "below_good", "steady" >>
C4_ExactlyOneRule ==
    lastRule \in Rules =>
        LET conds == RuleConditions(percent, cfg)
        IN  /\ \E i \in 1..6 : conds[i]
            /\ \A i \in 1..6 :
                 (conds[i] /\ \A j \in 1..(i - 1) : ~conds[j]) => lastRule = RuleOrder[i]
            /\ conds[6] => \A j \in 1..5 : ~conds[j]
            /\ conds[3] => ~conds[1] /\ ~conds[2] /\ ~conds[4]
C4_Witness == lastRule = "below_good" /\ percent = cfg.min_percent /\ lastEv = "ok"

\* C5: every panic iteration sets primarycache to "metadata" or "none", to the one
\* it did not have; from unset, "all" or "none" it goes to "metadata"; and two
\* panic iterations in a row never use the same mode.
C5_PanicAlternates ==
    [][ (cpc = "loop" /\ lastRule' = "panic") =>
          /\ primarycache' \in {"metadata", "none"}
          /\ primarycache' # primarycache
          /\ primarycache \in {"None", "all", "none"} => primarycache' = "metadata"
          /\ lastPanic' = primarycache'
          /\ lastPanic # "-" => lastPanic' # lastPanic ]_vars
C5_Witness == lastRule = "panic" /\ lastPanic = "none" /\ primarycache = "none"

\* C6: a panic iteration changes primarycache, then calls drop_caches, then sets
\* the mode on every pool, then restarts crashplan, in this order; it leaves
\* limit_gb and both tunable files as they were.
PanicOrder ==
    << "sleep_action", "get_ram_total", "get_ram_used", "assign_primarycache",
       "drop_caches", "get_pools" >> \o [i \in 1..NumPools |-> "zfs_set"]
       \o << "restart_crashplan" >>
C6_PanicEffects ==
    [][ (cpc = "loop" /\ lastRule' = "panic") =>
          /\ limit_gb' = limit_gb
          /\ zfs_arc_max' = zfs_arc_max
          /\ zfs_arc_meta_limit' = zfs_arc_meta_limit
          /\ IsPrefix(ops', PanicOrder)
          /\ lastEv' = "ok" =>
                /\ ops' = PanicOrder
                /\ \A i \in Pools : pool_cache'[i] = primarycache' ]_vars
C6_Witness ==
    /\ lastRule = "panic" /\ lastEv = "ok" /\ limit_gb > cfg.min_gb
    /\ \A i \in Pools : pool_cache[i] = "metadata"

\* C7: limit_init() turns a persisted value below min_gb into min_gb, one above
\* max_gb into max_gb, and keeps a value in between: limit_gb and the value
\* written back to zfs_arc_max are then the persisted value.  adjust() runs once.
\* (min_gb and max_gb are whole GB here, so their byte values are exact.)
C7_InitKeepsInRange ==
    [][ (cpc = "run" /\ cpc' = "loop") =>
          /\ BytesLess(zfs_arc_max, ToBytes(cfg.min_gb)) => limit_gb' = cfg.min_gb
          /\ BytesLess(ToBytes(cfg.max_gb), zfs_arc_max) => limit_gb' = cfg.max_gb
          /\ (~BytesLess(zfs_arc_max, ToBytes(cfg.min_gb))
                /\ ~BytesLess(ToBytes(cfg.max_gb), zfs_arc_max)) =>
                    zfs_arc_max' = zfs_arc_max /\ ToBytes(limit_gb') = zfs_arc_max
          /\ Count(ops', "write_max") = 1 /\ Count(ops', "write_meta") = 1 ]_vars

\* C8: after a steady-state iteration limit_gb is, up to the rounding to 0.01 GB,
\* min_good_gb + (1 - relative) * (max_good_gb - min_good_gb); it lies in
\* [min_good_gb, max_good_gb], is max_good_gb at min_good_percent and min_good_gb
\* at max_good_percent, does not increase with the percentage, and is 15 GB for
\* the band 89..93, the limits 10..20 and 91 percent.
C8_SteadyInterpolation ==
    (lastRule = "steady" /\ lastEv = "ok") =>
        LET den == cfg.max_good_percent - cfg.min_good_percent
            exact == cfg.min_good_gb * den
                       + (cfg.max_good_percent - percent) * (cfg.max_good_gb - cfg.min_good_gb)
        IN  /\ Abs(limit_gb * den - exact) <= 5 * den
            /\ cfg.min_good_gb <= limit_gb /\ limit_gb <= cfg.max_good_gb
            /\ percent = cfg.min_good_percent => limit_gb = cfg.max_good_gb
            /\ percent = cfg.max_good_percent => limit_gb = cfg.min_good_gb
            /\ \A q \in cfg.min_good_percent..percent : Interpolate(q, cfg) >= limit_gb
            /\ (/\ cfg.min_good_percent = 8900 /\ cfg.max_good_percent = 9300
                /\ cfg.min_good_gb = 10000 /\ cfg.max_good_gb = 20000
                /\ percent = 9100) => limit_gb = 15000

\* C9: inside the loop an exception of a call never ends the process: the loop
\* is left only by a KeyboardInterrupt, and the cooldown is left only for the
\* next iteration or by a KeyboardInterrupt.
C9_LoopSurvivesFailures ==
    [][ /\ (InLoop /\ cpc' = "exited") => exitCause' = "kint"
        /\ (cpc = "loop" /\ lastEv' = "fail") => cpc' = "cooldown"
        /\ (cpc = "cooldown" /\ cpc' # "cooldown") =>
              cpc' = "loop" \/ exitCause' = "kint" ]_vars
C9_Witness ==
    /\ cpc = "loop" /\ lastEv = "resumed"
    /\ Len(ops) > 0 /\ ops[Len(ops)] = "write_meta"

\* C10: a process that got a KeyboardInterrupt inside run() is never back in the
\* loop; a process that has ended after taking the lock has released it and has
\* called os.remove(lockFile); a process that did not take the lock never
\* removes the lock file.
C10_CancelPropagates ==
    \A p \in Procs :
        /\ interrupted[p] => pc[p] \in {"unwind", "finally", "exited"}
        /\ pc[p] \in {"finally", "exited"} => \A i \in DOMAIN flock : flock[i] # p
        /\ (pc[p] = "exited" /\ got_lock[p]) => removed[p]
        /\ removed[p] => got_lock[p]
C10_Witness ==
    \E p, q \in Procs :
        /\ pc[p] = "exited" /\ interrupted[p] /\ removed[p]
        /\ pc[q] = "exited" /\ ~got_lock[q] /\ ~removed[q]

\* C11: an above-max iteration (max_percent < percent <= max_panic_percent) with
\* limit_gb above min_gb sets limit_gb to the larger of limit_gb - 1 and min_gb
\* and writes it with adjust(); with limit_gb at min_gb it changes neither
\* limit_gb nor a tunable file and sleeps the idle delay.  It never changes
\* primarycache or a pool, whether it completes or fails.
MeasureOrder == << "sleep_action", "get_ram_total", "get_ram_used" >>
AdjustOrder == << "assign_limit_gb", "write_meta", "write_max" >>
Max(a, b) == IF a >= b THEN a ELSE b
Min(a, b) == IF a <= b THEN a ELSE b
C11_AboveMaxRule ==
    [][ (cpc = "loop" /\ lastRule' = "above_max") =>
          /\ cfg.max_percent < percent' /\ percent' <= cfg.max_panic_percent
          /\ primarycache' = primarycache /\ pool_cache' = pool_cache
          /\ (lastEv' = "ok" /\ limit_gb > cfg.min_gb) =>
                /\ limit_gb' = Max(limit_gb - Scale, cfg.min_gb)
                /\ zfs_arc_max' = ToBytes(limit_gb')
                /\ zfs_arc_meta_limit' = ToBytes(limit_gb' - meta_offset_gb * Scale)
                /\ ops' = MeasureOrder \o AdjustOrder
          /\ (lastEv' = "ok" /\ limit_gb <= cfg.min_gb) =>
                /\ limit_gb' = limit_gb
                /\ zfs_arc_max' = zfs_arc_max
                /\ zfs_arc_meta_limit' = zfs_arc_meta_limit
                /\ ops' = MeasureOrder \o << "sleep_idle" >> ]_vars
\* an above-max iteration has brought the limit down to min_gb with adjust()
C11_Witness ==
    /\ lastRule = "above_max" /\ lastEv = "ok" /\ limit_gb = cfg.min_gb
    /\ Count(ops, "write_max") = 1
    /\ BytesLess(zfs_arc_max, ToBytes(cfg.min_gb + Scale))

\* C12: a below-min iteration (percent < min_percent) whose primarycache is not
\* "all" (unset included) sets every pool to "all" and records it, also when
\* limit_gb is already max_gb; with primarycache = "all" it touches no pool.
\* Then, with limit_gb below max_gb, limit_gb becomes the smaller of limit_gb + 1
\* and max_gb and is written with adjust(); otherwise limit_gb and both tunable
\* files stay as they were.
PoolsOrder == << "get_pools" >> \o [i \in 1..NumPools |-> "zfs_set"]
                \o << "assign_primarycache" >>
C12_BelowMinRule ==
    [][ (cpc = "loop" /\ lastRule' = "below_min" /\ lastEv' = "ok") =>
          /\ percent' < cfg.min_percent
          /\ primarycache' = "all"
          /\ \A i \in Pools : pool_cache'[i] = "all"
          /\ primarycache = "all" => pool_cache' = pool_cache /\ Count(ops', "zfs_set") = 0
          /\ primarycache # "all" => Count(ops', "zfs_set") = NumPools
          /\ limit_gb < cfg.max_gb =>
                /\ limit_gb' = Min(limit_gb + Scale, cfg.max_gb)
                /\ zfs_arc_max' = ToBytes(limit_gb')
                /\ zfs_arc_meta_limit' = ToBytes(limit_gb' - meta_offset_gb * Scale)
                /\ ops' = MeasureOrder
                            \o (IF primarycache # "all" THEN PoolsOrder ELSE << >>)
                            \o AdjustOrder
          /\ limit_gb >= cfg.max_gb =>
                /\ limit_gb' = limit_gb
                /\ zfs_arc_max' = zfs_arc_max
                /\ zfs_arc_meta_limit' = zfs_arc_meta_limit
                /\ ops' = MeasureOrder
                            \o (IF primarycache # "all" THEN PoolsOrder ELSE << >>)
                            \o << "sleep_idle" >> ]_vars
\* the pools are set while the limit is already at max_gb
C12_Witness ==
    /\ lastRule = "below_min" /\ lastEv = "ok" /\ limit_gb = cfg.max_gb
    /\ Count(ops, "zfs_set") = NumPools /\ Count(ops, "write_max") = 0

\* C13: an above-good iteration (max_good_percent < percent <= max_percent) sets
\* limit_gb to min_good_gb, a below-good iteration (min_percent <= percent <
\* min_good_percent) sets it to max_good_gb, whatever limit_gb was, and writes it
\* with adjust(); neither changes primarycache or a pool.
C13_SnapRules ==
    [][ (cpc = "loop" /\ lastRule' \in {"above_good", "below_good"}) =>
          /\ lastRule' = "above_good" =>
                cfg.max_good_percent < percent' /\ percent' <= cfg.max_percent
          /\ lastRule' = "below_good" =>
                cfg.min_percent <= percent' /\ percent' < cfg.min_good_percent
          /\ primarycache' = primarycache /\ pool_cache' = pool_cache
          /\ lastEv' = "ok" =>
                /\ limit_gb' = (IF lastRule' = "above_good" THEN cfg.min_good_gb
                                ELSE cfg.max_good_gb)
                /\ zfs_arc_max' = ToBytes(limit_gb')
                /\ zfs_arc_meta_limit' = ToBytes(limit_gb' - meta_offset_gb * Scale)
                /\ ops' = MeasureOrder \o AdjustOrder \o << "sleep_idle" >> ]_vars
\* a snap down from a limit more than one unit above min_good_gb
C13_Witness ==
    /\ lastRule = "above_good" /\ lastEv = "ok" /\ limit_gb = cfg.min_good_gb
    /\ cfg.min_good_gb < cfg.max_good_gb
    /\ primarycache = "none"

\* C14: when adjust(limit) has returned, zfs_arc_max holds the byte value of
\* limit and zfs_arc_meta_limit the byte value of limit - 2 GB, so that the
\* meta file is the max file minus 2 GB; when one of its two writes fails,
\* adjust() fails: in the loop the exception reaches the handler (cooldown), in
\* limit_init() it ends the process.
SameBytes(a, b) ==
    \/ a = b
    \/ a.g = b.g + 1 /\ a.r = b.r - GiB
    \/ a.g = b.g - 1 /\ a.r = b.r + GiB
AdjustReturned(o) == Count(o, "write_max") = 1
AdjustFailed(o) == Len(o) > 0 /\ o[Len(o)] \in {"assign_limit_gb", "write_meta"}
C14_AdjustWritesBoth ==
    [][ /\ (cpc \in {"run", "loop"} /\ AdjustReturned(ops')) =>
              /\ zfs_arc_max' = ToBytes(limit_gb')
              /\ zfs_arc_meta_limit' = ToBytes(limit_gb' - meta_offset_gb * Scale)
              /\ SameBytes(zfs_arc_meta_limit',
                           [g |-> zfs_arc_max'.g - meta_offset_gb, r |-> zfs_arc_max'.r])
        /\ (cpc = "loop" /\ lastEv' = "fail" /\ AdjustFailed(ops')) =>
              cpc' = "cooldown" /\ zfs_arc_max' = zfs_arc_max
        /\ (cpc = "run" /\ lastEv' = "fail") =>
              cpc' = "exited" /\ exitCause' = "error" /\ zfs_arc_max' = zfs_arc_max
      ]_vars

\* C15: once startup is over (run() is entered, so before any tunable write and
\* before the first iteration) the bounds are ordered:
\* min_gb <= min_good_gb <= max_good_gb <= max_gb; a configuration whose bounds
\* are not ordered never gets that far.
C15_BoundsOrdered ==
    cpc \in {"run", "loop", "cooldown"} =>
        /\ cfg.min_gb <= cfg.min_good_gb
        /\ cfg.min_good_gb <= cfg.max_good_gb
        /\ cfg.max_good_gb <= cfg.max_gb

\* C16: in a run in which, from some iteration on, every iteration completes
\* without error and measures a percentage above max_percent (the panic rule or
\* the above-max rule applies), limit_gb eventually equals min_gb.
HighPressure == cpc = "loop" /\ lastRule \in {"panic", "above_max"} /\ lastEv = "ok"
C16_FloorUnderPressure == <>[]HighPressure => <>(InLoop /\ limit_gb = cfg.min_gb)

\* C17: the measurement reads the fields of the schema free -m prints, which is
\* recognised by the "available" column of the header: with the legacy schema
\* used memory is field 2 of the third output line, with the new schema it is
\* total minus available of the second line; total is field 1 of the second
\* line; and the percentage is computed from these.
SchemaUsed(ram) ==
    IF detect_free_version(ram) = "3.3.9" THEN Split(ram.lines[2], 2)
    ELSE Split(ram.lines[1], 1) - Split(ram.lines[1], 6)
C17_SchemaFields ==
    /\ fpc = "total" => meas_total = Split(free_out.lines[1], 1)
    /\ fpc = "used" => meas_used = SchemaUsed(free_out)
    /\ (fpc = "idle" /\ meas_percent # 0 - 1) =>
          meas_percent = Percent(SchemaUsed(free_out), meas_total)

\* C18 (as stated): whenever primarycache is "all", "metadata" or "none", every
\* pool has that mode.
C18_RecordedModeAgrees ==
    primarycache \in {"all", "metadata", "none"} =>
        \A i \in Pools : pool_cache[i] = primarycache

\* C18 (amended): whenever primarycache is "all", every pool has the mode all.
\* "metadata" and "none" are recorded by the panic branch before it calls
\* drop_caches() and set_primarycache(): every pool has the recorded mode once
\* set_primarycache() has completed, and until then every pool has either the
\* recorded mode or the mode it had before.  A below-min iteration records
\* "all" only after set_primarycache("all") has completed; when that call fails,
\* primarycache stays and the pools already set are all.  Nothing else changes
\* primarycache or a pool while the process runs.
C18_RecordedModeAmended ==
    [][ /\ primarycache' = "all" => \A i \in Pools : pool_cache'[i] = "all"
        /\ (cpc = "loop" /\ cpc' # "exited" /\ primarycache' # primarycache) =>
              \/ lastRule' = "below_min" /\ primarycache' = "all"
              \/ /\ lastRule' = "panic"
                 /\ primarycache' \in {"metadata", "none"}
                 /\ \A i \in Pools : pool_cache'[i] \in {pool_cache[i], primarycache'}
                 /\ Count(ops', "zfs_set") = NumPools =>
                       \A i \in Pools : pool_cache'[i] = primarycache'
        /\ (cpc' # "exited" /\ primarycache' = primarycache) =>
              IF lastRule' = "below_min"
              THEN \A i \in Pools : pool_cache'[i] \in {pool_cache[i], "all"}
              ELSE pool_cache' = pool_cache ]_vars
\* set_primarycache("metadata") has failed after the first pool
C18_Witness ==
    /\ cpc = "loop" /\ lastRule = "panic" /\ lastEv = "resumed"
    /\ primarycache = "metadata"
    /\ pool_cache[1] = "metadata" /\ pool_cache[NumPools] = "all"

\* C19: at the start of every iteration zfs_arc_max holds the byte value of
\* limit_gb and zfs_arc_meta_limit that of limit_gb - 2 GB, also after an
\* iteration in which a write of adjust() failed and the handler caught it.
C19_TunablesFollowLimit ==
    cpc = "loop" =>
        /\ zfs_arc_max = ToBytes(limit_gb)
        /\ zfs_arc_meta_limit = ToBytes(limit_gb - meta_offset_gb * Scale)

\* C20: every value adjust() writes to zfs_arc_meta_limit is non-negative and
\* every value it writes to zfs_arc_max is positive.
C20_WrittenValuesValid ==
    /\ Count(ops, "write_meta") > 0 =>
          zfs_arc_meta_limit.g >= 0 /\ zfs_arc_meta_limit.r >= 0
    /\ Count(ops, "write_max") > 0 =>
          /\ zfs_arc_max.g >= 0 /\ zfs_arc_max.r >= 0
          /\ zfs_arc_max.g > 0 \/ zfs_arc_max.r > 0

====
